---- MODULE Spec2Model ----
(***************************************************************************)
(* Recipe extraction: the schema validation and normalisation carried out  *)
(* by the two structured-output parsers (app/api/extract-recipe/route.ts   *)
(* and app/utils/extractRecipe.ts) and the POST handler of the route.      *)
(*                                                                         *)
(* JSON values are tagged records:                                         *)
(*   [t |-> "null"], [t |-> "bool", b], [t |-> "str", s],                   *)
(*   [t |-> "num", n, half]   the number n + (IF half THEN 1/2 ELSE 0),     *)
(*   [t |-> "arr", a]         a sequence of values,                         *)
(*   [t |-> "obj", o]         a function from the keys present to values,   *)
(* [t |-> "undef"] is JavaScript's undefined (what reading a missing key   *)
(* gives) and [t |-> "text"] is completion output that is not JSON.        *)
(***************************************************************************)
EXTENDS Integers, Sequences, FiniteSets, TLC

VARIABLES raw, via, nstep, nout, nout2,
          pc, body, recipeText, calls, llm, resp,
          pdfFile, jsonResult, error, isProcessing, rpc, rfile,
          isClient, pdfjsLib, lpc

nvars == <<raw, via, nstep, nout, nout2>>
pvars == <<pc, body, recipeText, calls, llm, resp>>
uvars == <<pdfFile, jsonResult, error, isProcessing, rpc, rfile, isClient, pdfjsLib, lpc>>
vars == <<raw, via, nstep, nout, nout2, pc, body, recipeText, calls, llm, resp,
          pdfFile, jsonResult, error, isProcessing, rpc, rfile,
          isClient, pdfjsLib, lpc>>

(* ------------------------------ bounds --------------------------------- *)
MaxNum == 1
MaxSubs == 2
MaxIngs == 2
MaxComps == 2
NumReqs == 2
NumFiles == 2
NumRuns == 2

(* ---------------------------- JSON values ------------------------------ *)
Undef == [t |-> "undef"]
Null == [t |-> "null"]
NotJson == [t |-> "text"]
Bool(b) == [t |-> "bool", b |-> b]
Str(s) == [t |-> "str", s |-> s]
Num(n, h) == [t |-> "num", n |-> n, half |-> h]
Int0(n) == Num(n, FALSE)
Arr(a) == [t |-> "arr", a |-> a]
Obj(o) == [t |-> "obj", o |-> o]

\* data[key]: undefined when the key is missing
Get(x, k) == IF x.t = "obj" /\ k \in DOMAIN x.o THEN x.o[k] ELSE Undef
Has(x, k) == x.t = "obj" /\ k \in DOMAIN x.o
\* { ...x, [k]: v }
With(x, k, v) == Obj([j \in (DOMAIN x.o) \cup {k} |-> IF j = k THEN v ELSE x.o[j]])
Without(x, k) == Obj([j \in (DOMAIN x.o) \ {k} |-> x.o[j]])

\* JavaScript truthiness, as used by !x and x || d
Falsy(x) ==
    \/ x.t \in {"undef", "null"}
    \/ x.t = "bool" /\ ~x.b
    \/ x.t = "str" /\ x.s = ""
    \/ x.t = "num" /\ x.n = 0 /\ ~x.half
OrElse(x, d) == IF Falsy(x) THEN d ELSE x

\* result of a parse: a value or a thrown error
Fail == [ok |-> FALSE]
Ok(v) == [ok |-> TRUE, v |-> v]

(* ------------------------- zod primitive schemas ----------------------- *)
\* mutant: z.string().nullable()
ZString_Nullable(x) == IF x.t \in {"str", "null"} THEN Ok(x) ELSE Fail
ZString(x) == IF x.t = "str" THEN Ok(x) ELSE Fail
ZStringMin1(x) == IF x.t = "str" /\ x.s # "" THEN Ok(x) ELSE Fail
ZStringDefault(x) == IF x.t = "undef" THEN Ok(Str("")) ELSE ZString(x)
\* mutant: z.number() without .nonnegative()
ZNumberNonneg_Unchecked(x) == IF x.t = "num" THEN Ok(x) ELSE Fail
ZNumberNonneg(x) == IF x.t = "num" /\ x.n >= 0 THEN Ok(x) ELSE Fail
ZIntNonneg(x) == IF x.t = "num" /\ ~x.half /\ x.n >= 0 THEN Ok(x) ELSE Fail
ZIntNonnegDefault(x) == IF x.t = "undef" THEN Ok(Int0(0)) ELSE ZIntNonneg(x)
ComponentTypes == {"protein", "starch", "vegetable", "sauce"}
\* mutant: z.string() in place of z.enum([...])
ZEnum_AnyString(x) == IF x.t = "str" THEN Ok(x) ELSE Fail
ZEnum(x) == IF x.t = "str" /\ x.s \in ComponentTypes THEN Ok(x) ELSE Fail
\* z.array(element): x must be an array; r[i] is the element schema's result
\* on x[i], and one failing element fails the array
ElemIdx(x) == IF x.t = "arr" THEN 1..Len(x.a) ELSE {}
ZArray(x, r) ==
    IF x.t # "arr" THEN Fail
    ELSE IF \A i \in ElemIdx(x) : r[i].ok
         THEN Ok(Arr([i \in ElemIdx(x) |-> r[i].v]))
         ELSE Fail
\* schema.optional(): undefined passes, anything else gets the schema's result r
ZOptional(x, r) == IF x.t = "undef" THEN Ok(Undef) ELSE r

(* ------------------ route.ts: IngredientSchema ------------------------- *)
SubIngredientObject(x) ==
    IF x.t # "obj" THEN Fail
    ELSE LET n == ZString(Get(x, "name"))
             g == ZNumberNonneg(Get(x, "amount_per_portion_grams"))
         IN IF n.ok /\ g.ok
            THEN Ok(Obj([name |-> n.v, amount_per_portion_grams |-> g.v]))
            ELSE Fail

SubIngredientArray(x) == ZArray(x, [i \in ElemIdx(x) |-> SubIngredientObject(x.a[i])])

\* z.object({...}): unknown keys are stripped, sub_ingredients is kept only
\* when the input has the key
IngredientObject(x) ==
    IF x.t # "obj" THEN Fail
    ELSE LET n == ZString(Get(x, "name"))
             g == ZNumberNonneg(Get(x, "amount_per_portion_grams"))
             s == ZOptional(Get(x, "sub_ingredients"),
                            SubIngredientArray(Get(x, "sub_ingredients")))
             o == Obj([name |-> n.v, amount_per_portion_grams |-> g.v])
         IN IF n.ok /\ g.ok /\ s.ok
            THEN Ok(IF s.v.t = "undef" THEN o ELSE With(o, "sub_ingredients", s.v))
            ELSE Fail

\* mutant: if (data.sub_ingredients) without the length test
IngredientTransform_KeepEmpty(data) ==
    LET result == Obj([name |-> Get(data, "name"),
                       amount_per_portion_grams |-> Get(data, "amount_per_portion_grams")])
        subs == Get(data, "sub_ingredients")
    IN IF ~Falsy(subs)
       THEN With(result, "sub_ingredients", subs)
       ELSE result

IngredientTransform(data) ==
    LET result == Obj([name |-> Get(data, "name"),
                       amount_per_portion_grams |-> Get(data, "amount_per_portion_grams")])
        subs == Get(data, "sub_ingredients")
    IN IF ~Falsy(subs) /\ Len(subs.a) > 0
       THEN With(result, "sub_ingredients", subs)
       ELSE result

IngredientSchema(x) ==
    LET p == IngredientObject(x)
    IN IF p.ok THEN Ok(IngredientTransform(p.v)) ELSE Fail

IngredientArray(x) == ZArray(x, [i \in ElemIdx(x) |-> IngredientSchema(x.a[i])])

(* -------------------- route.ts: RecipeSchema --------------------------- *)
ComponentObject(x) ==
    IF x.t # "obj" THEN Fail
    ELSE LET n == ZString(Get(x, "name"))
             ty == ZEnum(Get(x, "type"))
             pt == ZIntNonneg(Get(x, "prep_time_minutes"))
             ct == ZIntNonneg(Get(x, "cook_time_minutes"))
             tf == ZIntNonneg(Get(x, "cook_temp_fahrenheit"))
             cm == ZString(Get(x, "cook_method"))
             pw == ZNumberNonneg(Get(x, "portion_weight_grams"))
             ig == IngredientArray(Get(x, "ingredients"))
         IN IF n.ok /\ ty.ok /\ pt.ok /\ ct.ok /\ tf.ok /\ cm.ok /\ pw.ok /\ ig.ok
            THEN Ok(Obj([name |-> n.v, type |-> ty.v,
                         prep_time_minutes |-> pt.v, cook_time_minutes |-> ct.v,
                         cook_temp_fahrenheit |-> tf.v, cook_method |-> cm.v,
                         portion_weight_grams |-> pw.v, ingredients |-> ig.v]))
            ELSE Fail

ComponentArray(x) == ZArray(x, [i \in ElemIdx(x) |-> ComponentObject(x.a[i])])
AllergenArray(x) == ZArray(x, [i \in ElemIdx(x) |-> ZString(x.a[i])])

RecipeObject(x) ==
    IF x.t # "obj" THEN Fail
    ELSE LET rn == ZString(Get(x, "recipe_name"))
             ch == ZString(Get(x, "chef"))
             yc == ZNumberNonneg(Get(x, "yield_count"))
             al == AllergenArray(Get(x, "allergens"))
             co == ComponentArray(Get(x, "components"))
         IN IF rn.ok /\ ch.ok /\ yc.ok /\ al.ok /\ co.ok
            THEN Ok(Obj([recipe_name |-> rn.v, chef |-> ch.v, yield_count |-> yc.v,
                         allergens |-> al.v, components |-> co.v]))
            ELSE Fail

\* the arrow function mapped over data.components
ComponentTransform(component) ==
    Obj([k \in (DOMAIN component.o) \cup
              {"name", "type", "prep_time_minutes", "cook_time_minutes",
               "cook_temp_fahrenheit", "cook_method", "portion_weight_grams",
               "ingredients"} |->
         CASE k = "name" -> OrElse(Get(component, "name"), Str("Unknown Component"))
           [] k = "type" -> OrElse(Get(component, "type"), Str("protein"))
           [] k = "prep_time_minutes" -> OrElse(Get(component, "prep_time_minutes"), Int0(0))
           [] k = "cook_time_minutes" -> OrElse(Get(component, "cook_time_minutes"), Int0(0))
           [] k = "cook_temp_fahrenheit" -> OrElse(Get(component, "cook_temp_fahrenheit"), Int0(0))
           [] k = "cook_method" -> OrElse(Get(component, "cook_method"), Str(""))
           [] k = "portion_weight_grams" -> OrElse(Get(component, "portion_weight_grams"), Int0(0))
           [] k = "ingredients" -> OrElse(Get(component, "ingredients"), Arr(<<>>))
           [] OTHER -> component.o[k]])

\* mutant: chef: data.chef || null
RecipeTransform_NullChef(data) ==
    LET comps == OrElse(Get(data, "components"), Arr(<<>>))
    IN Obj([k \in (DOMAIN data.o) \cup
                 {"recipe_name", "chef", "yield_count", "allergens", "components"} |->
            CASE k = "recipe_name" -> OrElse(Get(data, "recipe_name"), Str("Unknown Recipe"))
              [] k = "chef" -> OrElse(Get(data, "chef"), Null)
              [] k = "yield_count" -> OrElse(Get(data, "yield_count"), Int0(0))
              [] k = "allergens" -> OrElse(Get(data, "allergens"), Arr(<<>>))
              [] k = "components" ->
                   Arr([i \in 1..Len(comps.a) |-> ComponentTransform(comps.a[i])])
              [] OTHER -> data.o[k]])

RecipeTransform(data) ==
    LET comps == OrElse(Get(data, "components"), Arr(<<>>))
    IN Obj([k \in (DOMAIN data.o) \cup
                 {"recipe_name", "chef", "yield_count", "allergens", "components"} |->
            CASE k = "recipe_name" -> OrElse(Get(data, "recipe_name"), Str("Unknown Recipe"))
              [] k = "chef" -> OrElse(Get(data, "chef"), Str(""))
              [] k = "yield_count" -> OrElse(Get(data, "yield_count"), Int0(0))
              [] k = "allergens" -> OrElse(Get(data, "allergens"), Arr(<<>>))
              [] k = "components" ->
                   Arr([i \in 1..Len(comps.a) |-> ComponentTransform(comps.a[i])])
              [] OTHER -> data.o[k]])

RecipeSchema(x) ==
    LET p == RecipeObject(x)
    IN IF p.ok THEN Ok(RecipeTransform(p.v)) ELSE Fail

\* StructuredOutputParser.fromZodSchema(RecipeSchema).parse(text): text that
\* is not JSON throws, JSON is validated against the schema
parser(text) == IF text.t = "text" THEN Fail ELSE RecipeSchema(text)

(* ------------------ extractRecipe.ts: RecipeSchema --------------------- *)
UtilIngredientObject(x) ==
    IF x.t # "obj" THEN Fail
    ELSE LET n == ZString(Get(x, "name"))
             g == ZNumberNonneg(Get(x, "amount_per_portion_grams"))
         IN IF n.ok /\ g.ok
            THEN Ok(Obj([name |-> n.v, amount_per_portion_grams |-> g.v]))
            ELSE Fail

UtilIngredientArray(x) == ZArray(x, [i \in ElemIdx(x) |-> UtilIngredientObject(x.a[i])])

UtilComponentObject(x) ==
    IF x.t # "obj" THEN Fail
    ELSE LET n == ZStringMin1(Get(x, "name"))
             ty == ZEnum(Get(x, "type"))
             pt == ZIntNonneg(Get(x, "prep_time_minutes"))
             ct == ZIntNonneg(Get(x, "cook_time_minutes"))
             tf == ZIntNonnegDefault(Get(x, "cook_temp_fahrenheit"))
             cm == ZStringDefault(Get(x, "cook_method"))
             pw == ZNumberNonneg(Get(x, "portion_weight_grams"))
             ig == UtilIngredientArray(Get(x, "ingredients"))
         IN IF n.ok /\ ty.ok /\ pt.ok /\ ct.ok /\ tf.ok /\ cm.ok /\ pw.ok /\ ig.ok
            THEN Ok(Obj([name |-> n.v, type |-> ty.v,
                         prep_time_minutes |-> pt.v, cook_time_minutes |-> ct.v,
                         cook_temp_fahrenheit |-> tf.v, cook_method |-> cm.v,
                         portion_weight_grams |-> pw.v, ingredients |-> ig.v]))
            ELSE Fail

UtilComponentArray(x) == ZArray(x, [i \in ElemIdx(x) |-> UtilComponentObject(x.a[i])])

UtilRecipeSchema(x) ==
    IF x.t # "obj" THEN Fail
    ELSE LET rn == ZStringMin1(Get(x, "recipe_name"))
             ch == ZStringDefault(Get(x, "chef"))
             yc == ZNumberNonneg(Get(x, "yield_count"))
             al == AllergenArray(Get(x, "allergens"))
             co == UtilComponentArray(Get(x, "components"))
         IN IF rn.ok /\ ch.ok /\ yc.ok /\ al.ok /\ co.ok
            THEN Ok(Obj([recipe_name |-> rn.v, chef |-> ch.v, yield_count |-> yc.v,
                         allergens |-> al.v, components |-> co.v]))
            ELSE Fail

UtilParser(text) == IF text.t = "text" THEN Fail ELSE UtilRecipeSchema(text)

(* ------------------- completion outputs considered --------------------- *)
\* sequences over S of length lo..hi
SeqsOf(S, lo, hi) == UNION {[1..n -> S] : n \in lo..hi}
\* obj with key k set to each value of vals, and obj without key k
Variants(obj, k, vals) == {With(obj, k, v) : v \in vals} \cup {Without(obj, k)}

NumVals == {Num(n, h) : n \in -1..MaxNum, h \in BOOLEAN}
BadForNumber == {Null, Str("5")}
BadForString == {Null, Int0(1)}
BadForArray == {Null, Str("none")}

Panko == Obj([name |-> Str("Panko"), amount_per_portion_grams |-> Int0(1)])
Dill == Obj([name |-> Str("Dill"), amount_per_portion_grams |-> Int0(0)])
SubCore == {Panko, Dill}
SubVals ==
    SubCore
    \cup Variants(Panko, "name", {Str(""), Null})
    \cup Variants(Panko, "amount_per_portion_grams", NumVals \cup BadForNumber)
    \cup {With(Panko, "note", Str("toasted")), Str("Panko")}
SubSeqs == SeqsOf(SubVals, 0, 1) \cup SeqsOf(SubCore, 2, MaxSubs)

Salt == Obj([name |-> Str("Salt"), amount_per_portion_grams |-> Int0(1)])
HerbMix == With(Salt, "sub_ingredients", Arr(<<Panko>>))
SaltEmptySubs == With(Salt, "sub_ingredients", Arr(<<>>))
IngCore == {Salt, HerbMix, SaltEmptySubs}
IngVals ==
    IngCore
    \cup Variants(Salt, "name", {Str(""), Null})
    \cup Variants(Salt, "amount_per_portion_grams", NumVals \cup BadForNumber)
    \cup Variants(Salt, "sub_ingredients", {Arr(s) : s \in SubSeqs} \cup BadForArray)
    \cup {With(HerbMix, "unit", Str("g")), Null}
IngSeqs == SeqsOf(IngVals, 0, 1) \cup SeqsOf(IngCore, 2, MaxIngs)

Beef == Obj([name |-> Str("Beef"), type |-> Str("protein"),
             prep_time_minutes |-> Int0(1), cook_time_minutes |-> Int0(1),
             cook_temp_fahrenheit |-> Int0(1), cook_method |-> Str("braise"),
             portion_weight_grams |-> Int0(1), ingredients |-> Arr(<<Salt>>)])
Jus == Obj([name |-> Str(""), type |-> Str("sauce"),
            prep_time_minutes |-> Int0(0), cook_time_minutes |-> Int0(0),
            cook_temp_fahrenheit |-> Int0(0), cook_method |-> Str(""),
            portion_weight_grams |-> Int0(0),
            ingredients |-> Arr(<<HerbMix, SaltEmptySubs>>)])
CompCore == {Beef, Jus}
CompVals ==
    CompCore
    \cup Variants(Beef, "name", {Str(""), Null})
    \cup Variants(Beef, "type", {Str(ty) : ty \in ComponentTypes}
                                   \cup {Str("dessert"), Str(""), Null, Int0(1)})
    \cup Variants(Beef, "prep_time_minutes", NumVals \cup BadForNumber)
    \cup Variants(Beef, "cook_time_minutes", NumVals \cup BadForNumber)
    \cup Variants(Beef, "cook_temp_fahrenheit", NumVals \cup BadForNumber)
    \cup Variants(Beef, "cook_method", {Str("")} \cup BadForString)
    \cup Variants(Beef, "portion_weight_grams", NumVals \cup BadForNumber)
    \cup Variants(Beef, "ingredients", {Arr(s) : s \in IngSeqs} \cup BadForArray)
    \cup {With(Beef, "station", Str("grill")), Null}
CompSeqs == SeqsOf(CompVals, 0, 1) \cup SeqsOf(CompCore, 2, MaxComps)

\* root objects: every combination of the root fields over a small set of
\* components values, and every components value under a well-formed root
Absent == [t |-> "absent"]
MkRoot(rn, ch, yc, al, co) ==
    LET f == [recipe_name |-> rn, chef |-> ch, yield_count |-> yc,
              allergens |-> al, components |-> co]
    IN Obj([k \in {j \in DOMAIN f : f[j] # Absent} |-> f[k]])
RootNames == {Absent, Null, Str(""), Str("Soup")}
RootChefs == {Absent, Null, Str(""), Str("Ana")}
RootYields == {Absent, Null} \cup NumVals
RootAllergens == {Absent, Null, Arr(<<>>), Arr(<<Str("nuts")>>), Arr(<<Null>>)}
RootComponents == {Absent, Null, Arr(<<>>), Arr(<<Jus>>)}
RootDocs ==
    {MkRoot(rn, ch, yc, al, co) : rn \in RootNames, ch \in RootChefs,
        yc \in RootYields, al \in RootAllergens, co \in RootComponents}
    \cup {MkRoot(Str("Stew"), Str("Ana"), Int0(1), Arr(<<Str("nuts")>>), Arr(s)) :
             s \in CompSeqs}
    \cup {With(MkRoot(Str("Stew"), Str("Ana"), Int0(1), Arr(<<>>), Arr(<<Beef>>)),
               "notes", Str("serve hot"))}
RawOutputs == RootDocs \cup {NotJson, Null, Arr(<<>>), Str("Soup")}

(* --------------- parse-and-normalise, applied to an output -------------- *)
Parse(pipeline, text) == IF pipeline = "route" THEN parser(text) ELSE UtilParser(text)

PIdle == [r \in 1..NumReqs |-> "idle"]
PNone == [r \in 1..NumReqs |-> Undef]
PZero == [r \in 1..NumReqs |-> 0]

(* page.tsx: useState initial values; NoFile is null, NoResult is "" *)
Runs == 1..NumRuns
NoFile == 0
NoResult == [t |-> "empty"]
NoError == [t |-> "null"]
PageInit ==
    /\ pdfFile = NoFile
    /\ jsonResult = NoResult
    /\ error = NoError
    /\ isProcessing = FALSE
    /\ rpc = [k \in Runs |-> "idle"]
    /\ rfile = [k \in Runs |-> NoFile]
    /\ isClient = FALSE
    /\ pdfjsLib = FALSE
    /\ lpc = "unmounted"

InitNorm ==
    /\ PageInit
    /\ raw \in RawOutputs
    /\ via = "none"
    /\ nstep = "raw"
    /\ nout = Fail
    /\ nout2 = Fail
    /\ pc = PIdle /\ body = PNone /\ recipeText = PNone /\ calls = PZero
    /\ llm = PNone /\ resp = PNone

\* route.ts: chain's last stage, parser.parse(raw)
NormalizeRoute ==
    /\ nstep = "raw"
    /\ via' = "route"
    /\ nout' = parser(raw)
    /\ nstep' = "normalized"
    /\ UNCHANGED <<raw, nout2>> /\ UNCHANGED pvars /\ UNCHANGED uvars

\* extractRecipe.ts: chain's last stage, parser.parse(raw)
NormalizeUtil ==
    /\ nstep = "raw"
    /\ via' = "util"
    /\ nout' = UtilParser(raw)
    /\ nstep' = "normalized"
    /\ UNCHANGED <<raw, nout2>> /\ UNCHANGED pvars /\ UNCHANGED uvars

\* the returned document, serialised, is given to the same parser again
Renormalize ==
    /\ nstep = "normalized"
    /\ nout.ok
    /\ nout2' = Parse(via, nout.v)
    /\ nstep' = "renormalized"
    /\ UNCHANGED <<raw, via, nout>> /\ UNCHANGED pvars /\ UNCHANGED uvars

NextNorm == NormalizeRoute \/ NormalizeUtil \/ Renormalize
SpecNorm == InitNorm /\ [][NextNorm]_vars

(* ------------------- reading documents in the claims ------------------- *)
Normalized == nstep # "raw"
Returned == nstep # "raw" /\ nout.ok
CompsOf(d) == Get(d, "components").a
IngsOf(c) == Get(c, "ingredients").a
SubsOf(g) == Get(g, "sub_ingredients").a
CompIdx(d) == 1..Len(CompsOf(d))
IngIdx(d, i) == 1..Len(IngsOf(CompsOf(d)[i]))
IngAt(d, i, j) == IngsOf(CompsOf(d)[i])[j]
NonEmptyArr(v) == v.t = "arr" /\ Len(v.a) >= 1
RootKeys == {"recipe_name", "chef", "yield_count", "allergens", "components"}

(***************************************************************************)
(* C1: every completion output that is a JSON object, whatever it lacks,   *)
(* is normalised into a document; only non-JSON text fails.                *)
(***************************************************************************)
C1_TotalNormalization == (Normalized /\ raw.t = "obj") => nout.ok

(***************************************************************************)
(* C2: in a returned document an ingredient has a sub_ingredients key only *)
(* with a non-empty array under it; an empty or absent input field gives   *)
(* no key; in route.ts a non-empty input field gives the key.              *)
(***************************************************************************)
C2_SubIngredientsIffNonEmpty ==
    Returned =>
        \A i \in CompIdx(nout.v) : \A j \in IngIdx(nout.v, i) :
            LET o == IngAt(nout.v, i, j)
                g == IngAt(raw, i, j)
                gs == Get(g, "sub_ingredients")
            IN /\ Has(o, "sub_ingredients") => NonEmptyArr(Get(o, "sub_ingredients"))
               /\ (gs.t = "undef" \/ (gs.t = "arr" /\ Len(gs.a) = 0))
                      => ~Has(o, "sub_ingredients")
               /\ (via = "route" /\ NonEmptyArr(gs)) => Has(o, "sub_ingredients")

C2_Witness ==
    /\ Returned /\ via = "route"
    /\ \E i \in CompIdx(nout.v) : \E j, k \in IngIdx(nout.v, i) :
          /\ Get(IngAt(raw, i, j), "sub_ingredients") = Arr(<<>>)
          /\ ~Has(IngAt(nout.v, i, j), "sub_ingredients")
          /\ Has(IngAt(nout.v, i, k), "sub_ingredients")

(***************************************************************************)
(* C3: a root field the completion JSON lacks is output as its default     *)
(* ("Unknown Recipe", "", 0, [], []), the supplied ones staying as given;  *)
(* {"recipe_name":"Soup","components":[]} gives the all-defaults document. *)
(***************************************************************************)
RootDefault(k) ==
    CASE k = "recipe_name" -> Str("Unknown Recipe")
      [] k = "chef" -> Str("")
      [] k = "yield_count" -> Int0(0)
      [] k = "allergens" -> Arr(<<>>)
      [] k = "components" -> Arr(<<>>)
FilledRoot(d) == Obj([k \in (DOMAIN d.o) \cup RootKeys |->
                        IF k \in DOMAIN d.o THEN d.o[k] ELSE RootDefault(k)])
SoupInput == Obj([recipe_name |-> Str("Soup"), components |-> Arr(<<>>)])
SoupOutput == Obj([recipe_name |-> Str("Soup"), chef |-> Str(""), yield_count |-> Int0(0),
                   allergens |-> Arr(<<>>), components |-> Arr(<<>>)])
C3_RootDefaults ==
    /\ (Normalized /\ raw = SoupInput) => nout = Ok(SoupOutput)
    /\ (Normalized /\ raw.t = "obj" /\ Parse(via, FilledRoot(raw)).ok)
           => nout = Parse(via, FilledRoot(raw))

(***************************************************************************)
(* C4: a returned document holds no null and no undefined at any depth.    *)
(***************************************************************************)
RECURSIVE HasNull(_)
HasNull(v) ==
    CASE v.t \in {"null", "undef"} -> TRUE
      [] v.t = "arr" -> \E i \in 1..Len(v.a) : HasNull(v.a[i])
      [] v.t = "obj" -> \E k \in DOMAIN v.o : HasNull(v.o[k])
      [] OTHER -> FALSE
C4_NoNullAnywhere == Returned => ~HasNull(nout.v)

C4_Witness ==
    /\ Returned /\ raw # nout.v
    /\ Get(nout.v, "allergens") = Arr(<<Str("nuts")>>)
    /\ \E i \in CompIdx(nout.v) : \E j \in IngIdx(nout.v, i) :
          Has(IngAt(nout.v, i, j), "sub_ingredients")

(***************************************************************************)
(* C5: a component whose type is missing or a string outside the four      *)
(* categories is output with type protein, and the extraction succeeds.    *)
(***************************************************************************)
BadType(c) ==
    c.t = "obj" /\ (~Has(c, "type") \/ (Get(c, "type").t = "str"
                                          /\ Get(c, "type").s \notin ComponentTypes))
TypesRepaired(d) ==
    With(d, "components",
         Arr([i \in CompIdx(d) |->
                IF BadType(CompsOf(d)[i]) THEN With(CompsOf(d)[i], "type", Str("protein"))
                ELSE CompsOf(d)[i]]))
C5_InvalidTypeBecomesProtein ==
    (/\ Normalized /\ raw.t = "obj" /\ Get(raw, "components").t = "arr"
     /\ \E i \in CompIdx(raw) : BadType(CompsOf(raw)[i])
     /\ Parse(via, TypesRepaired(raw)).ok)
        => nout = Parse(via, TypesRepaired(raw))

(***************************************************************************)
(* C6: in a returned document every component's type is one of protein,    *)
(* starch, vegetable, sauce.                                               *)
(***************************************************************************)
C6_EnumClosure ==
    Returned =>
        \A i \in CompIdx(nout.v) :
            LET ty == Get(CompsOf(nout.v)[i], "type")
            IN ty.t = "str" /\ ty.s \in ComponentTypes

C6_Witness ==
    /\ Returned
    /\ Len(CompsOf(nout.v)) = 2
    /\ {Get(CompsOf(nout.v)[i], "type") : i \in CompIdx(nout.v)}
           = {Str("protein"), Str("sauce")}

(***************************************************************************)
(* C7: in a returned document every numeric field is a number >= 0.        *)
(***************************************************************************)
NonNegative(v) == v.t = "num" /\ v.n >= 0
ComponentNumbers == {"prep_time_minutes", "cook_time_minutes", "cook_temp_fahrenheit",
                     "portion_weight_grams"}
C7_NonNegative ==
    Returned =>
        /\ NonNegative(Get(nout.v, "yield_count"))
        /\ \A i \in CompIdx(nout.v) :
              /\ \A k \in ComponentNumbers : NonNegative(Get(CompsOf(nout.v)[i], k))
              /\ \A j \in IngIdx(nout.v, i) :
                    LET g == IngAt(nout.v, i, j)
                    IN /\ NonNegative(Get(g, "amount_per_portion_grams"))
                       /\ Has(g, "sub_ingredients") =>
                             \A s \in 1..Len(SubsOf(g)) :
                                 NonNegative(Get(SubsOf(g)[s], "amount_per_portion_grams"))

C7_Witness ==
    /\ Returned
    /\ Get(nout.v, "yield_count") = Num(0, TRUE)
    /\ \E i \in CompIdx(nout.v) : \E j \in IngIdx(nout.v, i) :
          /\ Has(IngAt(nout.v, i, j), "sub_ingredients")
          /\ Get(CompsOf(nout.v)[i], "portion_weight_grams") = Int0(0)

(***************************************************************************)
(* C8: a returned document given to the same parser again is accepted and  *)
(* comes back identical.                                                   *)
(***************************************************************************)
C8_Idempotent == nstep = "renormalized" => nout2 = nout

C8_Witness ==
    /\ nstep = "renormalized" /\ via = "route"
    /\ nout2.ok /\ raw # nout.v
    /\ Get(nout.v, "recipe_name") = Str("Unknown Recipe")
    /\ \E i \in CompIdx(nout.v) : \E j, k \in IngIdx(nout.v, i) :
          /\ ~Has(IngAt(nout.v, i, j), "sub_ingredients")
          /\ Has(IngAt(nout.v, i, k), "sub_ingredients")

(***************************************************************************)
(* C9: an input ingredient with a non-empty sub_ingredients array is       *)
(* output, at the same place, with the same sub-ingredients (count, order, *)
(* name and amount).                                                       *)
(***************************************************************************)
C9_SubIngredientsPreserved ==
    Returned =>
        \A i \in CompIdx(nout.v) :
            /\ Len(IngsOf(CompsOf(nout.v)[i])) = Len(IngsOf(CompsOf(raw)[i]))
            /\ \A j \in IngIdx(nout.v, i) :
                  LET o == IngAt(nout.v, i, j)
                      g == IngAt(raw, i, j)
                  IN NonEmptyArr(Get(g, "sub_ingredients")) =>
                        /\ Has(o, "sub_ingredients")
                        /\ Len(SubsOf(o)) = Len(SubsOf(g))
                        /\ \A s \in 1..Len(SubsOf(g)) :
                              \A k \in {"name", "amount_per_portion_grams"} :
                                  Get(SubsOf(o)[s], k) = Get(SubsOf(g)[s], k)

(* --------------------- route.ts: the POST handler ---------------------- *)
Reqs == 1..NumReqs
\* request bodies: [t |-> "text"] is a body request.json() cannot parse
Bodies ==
    {NotJson, Null, Int0(5), Str("Beef stew"), Arr(<<>>), Obj(<<>>)}
    \cup {Obj([recipeText |-> v]) :
            v \in {Null, Int0(0), Int0(5), Bool(TRUE), Arr(<<>>), Obj(<<>>),
                   Str(""), Str("Beef stew"), Str("Herb salmon")}}
StewDoc == MkRoot(Str("Stew"), Str("Ana"), Int0(1), Arr(<<Str("nuts")>>), Arr(<<Beef>>))
JusDoc == MkRoot(Str(""), Str(""), Int0(0), Arr(<<>>), Arr(<<Jus>>))
DessertDoc == With(StewDoc, "components", Arr(<<With(Beef, "type", Str("dessert"))>>))
CompletionOutputs == {NotJson, SoupInput, StewDoc, JusDoc, DessertDoc}
ModelError == [t |-> "error"]

Json(v, init) == [status |-> init, body |-> v]
BadRequest == Json(Obj([error |-> Str("Recipe text is required")]), 400)
ServerError == Json(Obj([error |-> Str("Failed to extract recipe data")]), 500)

Init ==
    /\ PageInit
    /\ pc = PIdle /\ body = PNone /\ recipeText = PNone /\ calls = PZero
    /\ llm = PNone /\ resp = PNone
    /\ raw = NotJson /\ via = "none" /\ nstep = "raw" /\ nout = Fail /\ nout2 = Fail

\* a request arrives with body b
Receive(r, b) ==
    /\ pc[r] = "idle"
    /\ body' = [body EXCEPT ![r] = b]
    /\ pc' = [pc EXCEPT ![r] = "reading"]
    /\ UNCHANGED <<recipeText, calls, llm, resp>> /\ UNCHANGED nvars /\ UNCHANGED uvars

\* const { recipeText } = await request.json(); the check of recipeText;
\* an exception of either goes to the catch block
ReadBody(r) ==
    /\ pc[r] = "reading"
    /\ IF body[r].t \in {"text", "null"}
       THEN /\ resp' = [resp EXCEPT ![r] = ServerError]
            /\ pc' = [pc EXCEPT ![r] = "done"]
            /\ UNCHANGED recipeText
       ELSE LET rt == Get(body[r], "recipeText")
            IN /\ recipeText' = [recipeText EXCEPT ![r] = rt]
               /\ IF Falsy(rt) \/ rt.t # "str"
                  THEN /\ resp' = [resp EXCEPT ![r] = BadRequest]
                       /\ pc' = [pc EXCEPT ![r] = "done"]
                  ELSE /\ pc' = [pc EXCEPT ![r] = "invoke"]
                       /\ UNCHANGED resp
    /\ UNCHANGED <<body, calls, llm>> /\ UNCHANGED nvars /\ UNCHANGED uvars

\* chain.invoke({recipe_text, format_instructions}): the prompt is rendered
\* and the model is called
InvokeChain(r) ==
    /\ pc[r] = "invoke"
    /\ calls' = [calls EXCEPT ![r] = @ + 1]
    /\ pc' = [pc EXCEPT ![r] = "awaiting"]
    /\ UNCHANGED <<body, recipeText, llm, resp>> /\ UNCHANGED nvars /\ UNCHANGED uvars

\* mutant: the result is kept in a module-level variable, so every request
\* waiting for its model call is answered with it
ModelReturns_SharedResult(r, out) ==
    /\ pc[r] = "awaiting"
    /\ llm' = [llm EXCEPT ![r] = out]
    /\ LET result == parser(out)
       IN resp' = [q \in Reqs |->
                     IF pc[q] = "awaiting"
                     THEN (IF result.ok THEN Json(result.v, 200) ELSE ServerError)
                     ELSE resp[q]]
    /\ pc' = [pc EXCEPT ![r] = "done"]
    /\ UNCHANGED <<body, recipeText, calls>> /\ UNCHANGED nvars /\ UNCHANGED uvars

\* the model answers with text out; the chain's parser stage runs on it and
\* the handler returns NextResponse.json(result), or the catch block's 500
ModelReturns(r, out) ==
    /\ pc[r] = "awaiting"
    /\ llm' = [llm EXCEPT ![r] = out]
    /\ LET result == parser(out)
       IN resp' = [resp EXCEPT ![r] = IF result.ok THEN Json(result.v, 200)
                                       ELSE ServerError]
    /\ pc' = [pc EXCEPT ![r] = "done"]
    /\ UNCHANGED <<body, recipeText, calls>> /\ UNCHANGED nvars /\ UNCHANGED uvars

\* mutant: the catch block answers { error: error.message }
ModelFails_LeakCause(r) ==
    /\ pc[r] = "awaiting"
    /\ llm' = [llm EXCEPT ![r] = ModelError]
    /\ resp' = [resp EXCEPT ![r] = Json(Obj([error |-> Str("429 rate limit exceeded")]), 500)]
    /\ pc' = [pc EXCEPT ![r] = "done"]
    /\ UNCHANGED <<body, recipeText, calls>> /\ UNCHANGED nvars /\ UNCHANGED uvars

\* mutant: a failed model call is retried once before the 500
ModelFails_RetryOnce(r) ==
    /\ pc[r] = "awaiting"
    /\ IF calls[r] < 2
       THEN /\ pc' = [pc EXCEPT ![r] = "invoke"]
            /\ UNCHANGED <<llm, resp>>
       ELSE /\ llm' = [llm EXCEPT ![r] = ModelError]
            /\ resp' = [resp EXCEPT ![r] = ServerError]
            /\ pc' = [pc EXCEPT ![r] = "done"]
    /\ UNCHANGED <<body, recipeText, calls>> /\ UNCHANGED nvars /\ UNCHANGED uvars

\* the model call throws (timeout, authentication, rate limit)
ModelFails(r) ==
    /\ pc[r] = "awaiting"
    /\ llm' = [llm EXCEPT ![r] = ModelError]
    /\ resp' = [resp EXCEPT ![r] = ServerError]
    /\ pc' = [pc EXCEPT ![r] = "done"]
    /\ UNCHANGED <<body, recipeText, calls>> /\ UNCHANGED nvars /\ UNCHANGED uvars

(* ------------------ extractRecipe.ts: extractRecipeJson ---------------- *)
\* the promise extractRecipeJson returns: resolved with the parser's result,
\* or rejected with the error the chain threw
Resolved(v) == [settled |-> "resolved", value |-> v]
Rejected(e) == [settled |-> "rejected", reason |-> e]
CallTexts == {Str(""), Str("Beef stew"), Str("Herb salmon")}

\* extractRecipeJson(text): builds the model and the chain and invokes it
ExtractRecipeJson(r, text) ==
    /\ pc[r] = "idle"
    /\ recipeText' = [recipeText EXCEPT ![r] = text]
    /\ calls' = [calls EXCEPT ![r] = @ + 1]
    /\ pc' = [pc EXCEPT ![r] = "xawaiting"]
    /\ UNCHANGED <<body, llm, resp>> /\ UNCHANGED nvars /\ UNCHANGED uvars

\* the model answers with text out; the parser stage runs and the result is
\* returned, or its exception rejects the promise
ExtractModelReturns(r, out) ==
    /\ pc[r] = "xawaiting"
    /\ llm' = [llm EXCEPT ![r] = out]
    /\ LET result == UtilParser(out)
       IN resp' = [resp EXCEPT ![r] = IF result.ok THEN Resolved(result.v)
                                       ELSE Rejected("OutputParserException")]
    /\ pc' = [pc EXCEPT ![r] = "xdone"]
    /\ UNCHANGED <<body, recipeText, calls>> /\ UNCHANGED nvars /\ UNCHANGED uvars

\* the model call throws
ExtractModelFails(r) ==
    /\ pc[r] = "xawaiting"
    /\ llm' = [llm EXCEPT ![r] = ModelError]
    /\ resp' = [resp EXCEPT ![r] = Rejected("ModelError")]
    /\ pc' = [pc EXCEPT ![r] = "xdone"]
    /\ UNCHANGED <<body, recipeText, calls>> /\ UNCHANGED nvars /\ UNCHANGED uvars

Next ==
    \E r \in Reqs :
        \/ \E b \in Bodies : Receive(r, b)
        \/ ReadBody(r)
        \/ InvokeChain(r)
        \/ \E out \in CompletionOutputs : ModelReturns(r, out)
        \/ ModelFails(r)
        \/ \E text \in CallTexts : ExtractRecipeJson(r, text)
        \/ \E out \in CompletionOutputs : ExtractModelReturns(r, out)
        \/ ExtractModelFails(r)
Spec == Init /\ [][Next]_vars

(***************************************************************************)
(* C10: a POST whose body carries no string recipeText is answered 400,    *)
(* never 500; one with a string recipeText whose extraction succeeds is    *)
(* answered 200 with the document.                                         *)
(***************************************************************************)
C10_MissingTextIs400 ==
    \A r \in Reqs :
        pc[r] = "done" =>
            /\ Get(body[r], "recipeText").t # "str" => resp[r].status = 400
            /\ (Get(body[r], "recipeText").t = "str" /\ llm[r].t \notin {"undef", "error"}
                    /\ parser(llm[r]).ok)
                  => resp[r] = Json(parser(llm[r]).v, 200)

(***************************************************************************)
(* C11: a POST that passed input validation and whose model call failed or *)
(* whose model output did not parse is answered 500 with a body holding    *)
(* only an error message, the same message for every cause.                *)
(***************************************************************************)
FailedAfterValidation(r) ==
    /\ pc[r] = "done" /\ calls[r] >= 1
    /\ (llm[r] = ModelError \/ ~parser(llm[r]).ok)
C11_OpaqueFailure ==
    \A r, q \in Reqs :
        (FailedAfterValidation(r) /\ FailedAfterValidation(q)) =>
            /\ resp[r].status = 500
            /\ DOMAIN resp[r].body.o = {"error"}
            /\ resp[r].body.o["error"].t = "str"
            /\ resp[r] = resp[q]

C11_Witness ==
    \E r, q \in Reqs :
        /\ FailedAfterValidation(r) /\ llm[r] = ModelError
        /\ FailedAfterValidation(q) /\ llm[q] = NotJson
        /\ resp[r].status = 500

(***************************************************************************)
(* C12: when the recipeText of an extraction request is missing, empty or  *)
(* not a string, the completion client is never invoked for it.            *)
(***************************************************************************)
InvalidText(v) == Falsy(v) \/ v.t # "str"
C12_ValidationBeforeCompletion ==
    \A r \in Reqs :
        (pc[r] \notin {"idle", "reading"} /\ InvalidText(recipeText[r])) => calls[r] = 0

(***************************************************************************)
(* C13: the completion client is invoked at most once per extraction call, *)
(* only from the invoke step, and a call is answered or settled from a     *)
(* model result only after exactly one invocation: no retry.               *)
(***************************************************************************)
C13_Step ==
    \A r \in Reqs :
        /\ calls'[r] <= 1
        /\ calls'[r] # calls[r] => (pc[r] \in {"invoke", "idle"}
                                     /\ pc'[r] \in {"awaiting", "xawaiting"})
        /\ pc[r] \in {"awaiting", "xawaiting"} =>
              (pc'[r] \in {pc[r], "done", "xdone"} /\ calls'[r] = 1)
        /\ (llm'[r] # llm[r]) => (pc[r] \in {"awaiting", "xawaiting"}
                                   /\ pc'[r] \in {"done", "xdone"})
        /\ pc[r] \in {"done", "xdone"} => (pc'[r] = pc[r] /\ resp'[r] = resp[r])
C13_AtMostOneCompletion == [][C13_Step]_vars

C13_Witness ==
    \E r, q \in Reqs :
        /\ pc[r] = "done" /\ llm[r] = ModelError /\ calls[r] = 1
        /\ pc[q] = "xdone" /\ llm[q] = DessertDoc /\ calls[q] = 1
        /\ resp[q] = Rejected("OutputParserException")

(***************************************************************************)
(* C15: two POSTs in flight do not interfere: the response is a function   *)
(* of the request's own body and of the model output of its own call, and  *)
(* a step of one request changes nothing of another request.               *)
(***************************************************************************)
OwnState(r) == <<pc[r], body[r], recipeText[r], calls[r], llm[r], resp[r]>>
C15_Determined ==
    \A r, q \in Reqs :
        (pc[r] = "done" /\ pc[q] = "done" /\ body[r] = body[q] /\ llm[r] = llm[q])
            => resp[r] = resp[q]
C15_Frame ==
    \A r, q \in Reqs : (r # q /\ OwnState(r)' # OwnState(r)) => OwnState(q)' = OwnState(q)
C15_NoInterference == []C15_Determined /\ [][C15_Frame]_vars

C15_Witness ==
    \E r, q \in Reqs :
        /\ r # q /\ pc[r] = "done" /\ pc[q] = "done"
        /\ body[r] = body[q] /\ llm[r] = StewDoc /\ llm[q] = NotJson
        /\ resp[r].status = 200 /\ resp[q].status = 500

(***************************************************************************)
(* C14: in every returned component a missing or empty name or cook_method *)
(* is output as "" and a missing numeric field as 0, the other fields as   *)
(* given; the components are as many as in the source, in the same order.  *)
(***************************************************************************)
ComponentStrings == {"name", "cook_method"}
ComponentDefault(k) == IF k \in ComponentStrings THEN Str("") ELSE Int0(0)
FilledComponent(c) ==
    Obj([k \in (DOMAIN c.o) \cup ComponentStrings \cup ComponentNumbers |->
           IF k \in DOMAIN c.o THEN c.o[k] ELSE ComponentDefault(k)])
ComponentsFilled(d) ==
    With(d, "components", Arr([i \in CompIdx(d) |-> FilledComponent(CompsOf(d)[i])]))
C14_ComponentDefaults ==
    (/\ Normalized /\ raw.t = "obj" /\ Get(raw, "components").t = "arr"
     /\ \A i \in CompIdx(raw) : CompsOf(raw)[i].t = "obj"
     /\ Parse(via, ComponentsFilled(raw)).ok)
        => /\ nout.ok
           /\ Len(CompsOf(nout.v)) = Len(CompsOf(raw))
           /\ \A i \in CompIdx(raw) : \A k \in ComponentStrings \cup ComponentNumbers :
                 Get(CompsOf(nout.v)[i], k) = Get(FilledComponent(CompsOf(raw)[i]), k)

(* ----------------------- page.tsx: the upload page --------------------- *)
Files == 1..NumFiles
\* JSON.stringify(extractedJson, null, 2) of the response for the text of file f
ResultOf(f) == [t |-> "json", of |-> f]
InFlight == {k \in Runs : rpc[k] # "idle"}
\* <Button disabled={!pdfFile || isProcessing}>; the controls are rendered
\* only once isClient is true
ButtonEnabled == isClient /\ pdfFile # NoFile /\ ~isProcessing
lvars == <<isClient, pdfjsLib, lpc>>

InitPage ==
    /\ PageInit
    /\ pc = PIdle /\ body = PNone /\ recipeText = PNone /\ calls = PZero
    /\ llm = PNone /\ resp = PNone
    /\ raw = NotJson /\ via = "none" /\ nstep = "raw" /\ nout = Fail /\ nout2 = Fail

\* the effects of the first commit: setIsClient(true), while the second
\* effect returns at if (!isClient); the page re-renders with isClient true
\* and commits the FileInput and the Button, the import not yet started
Mount ==
    /\ ~isClient
    /\ lpc = "unmounted"
    /\ isClient' = TRUE
    /\ lpc' = "mounted"
    /\ UNCHANGED <<pdfFile, jsonResult, error, isProcessing, rpc, rfile, pdfjsLib>>
    /\ UNCHANGED nvars /\ UNCHANGED pvars

\* the second effect runs again for [isClient]: loadPdfJs() up to its await
\* of import('pdfjs-dist')
LoadPdfJs ==
    /\ isClient
    /\ lpc = "mounted"
    /\ lpc' = "importing"
    /\ UNCHANGED <<pdfFile, jsonResult, error, isProcessing, rpc, rfile, isClient, pdfjsLib>>
    /\ UNCHANGED nvars /\ UNCHANGED pvars

\* the import resolves: setPdfjsLib(pdfjs)
ImportResolves ==
    /\ lpc = "importing"
    /\ pdfjsLib' = TRUE
    /\ lpc' = "done"
    /\ UNCHANGED <<pdfFile, jsonResult, error, isProcessing, rpc, rfile, isClient>>
    /\ UNCHANGED nvars /\ UNCHANGED pvars

\* the import rejects: the catch block of loadPdfJs sets error
ImportRejects ==
    /\ lpc = "importing"
    /\ error' = Str("Failed to load PDF processing library. Please refresh the page.")
    /\ lpc' = "done"
    /\ UNCHANGED <<pdfFile, jsonResult, isProcessing, rpc, rfile, isClient, pdfjsLib>>
    /\ UNCHANGED nvars /\ UNCHANGED pvars

\* handleFileChange(file); file is null when the input is cleared
HandleFileChange(f) ==
    /\ isClient
    /\ pdfFile' = f
    /\ jsonResult' = NoResult
    /\ error' = NoError
    /\ UNCHANGED <<isProcessing, rpc, rfile>> /\ UNCHANGED lvars /\ UNCHANGED nvars /\ UNCHANGED pvars

\* a click on the enabled button: processRecipe up to its first await, with
\* the pdfFile and the pdfjsLib of the render the handler was created in;
\* extractTextFromPDF throws at once when that pdfjsLib is null
ProcessRecipe(k) ==
    /\ ButtonEnabled
    /\ rpc[k] = "idle"
    /\ isProcessing' = TRUE
    /\ error' = NoError
    /\ rfile' = [rfile EXCEPT ![k] = pdfFile]
    /\ rpc' = [rpc EXCEPT ![k] = IF pdfjsLib THEN "extracting" ELSE "notLoaded"]
    /\ UNCHANGED <<pdfFile, jsonResult>> /\ UNCHANGED lvars /\ UNCHANGED nvars /\ UNCHANGED pvars

\* mutant: setIsProcessing(false) only after the success path, no finally
CatchFinally_NoFinally(k, msg) ==
    /\ error' = Str(msg)
    /\ rpc' = [rpc EXCEPT ![k] = "idle"]
    /\ rfile' = [rfile EXCEPT ![k] = NoFile]
    /\ UNCHANGED <<pdfFile, jsonResult, isProcessing>> /\ UNCHANGED lvars /\ UNCHANGED nvars /\ UNCHANGED pvars

\* catch (err) { setError(message) } finally { setIsProcessing(false) }
CatchFinally(k, msg) ==
    /\ error' = Str(msg)
    /\ isProcessing' = FALSE
    /\ rpc' = [rpc EXCEPT ![k] = "idle"]
    /\ rfile' = [rfile EXCEPT ![k] = NoFile]
    /\ UNCHANGED <<pdfFile, jsonResult>> /\ UNCHANGED lvars /\ UNCHANGED nvars /\ UNCHANGED pvars

\* extractTextFromPDF resolves with text; fetch('/api/extract-recipe') is sent
TextExtracted(k) ==
    /\ rpc[k] = "extracting"
    /\ rpc' = [rpc EXCEPT ![k] = "fetching"]
    /\ UNCHANGED <<pdfFile, jsonResult, error, isProcessing, rfile>>
    /\ UNCHANGED lvars /\ UNCHANGED nvars /\ UNCHANGED pvars

\* the rejection of extractTextFromPDF called without pdfjsLib is caught
LibraryNotLoaded(k) ==
    /\ rpc[k] = "notLoaded"
    /\ CatchFinally(k, "PDF.js library not loaded yet. Please try again.")

\* extractTextFromPDF throws
TextExtractionFails(k) ==
    /\ rpc[k] = "extracting"
    /\ CatchFinally(k, "Failed to extract text from PDF")

\* fetch resolves; ok is response.ok
FetchResponds(k, ok) ==
    /\ rpc[k] = "fetching"
    /\ rpc' = [rpc EXCEPT ![k] = IF ok THEN "decoding" ELSE "decodingError"]
    /\ UNCHANGED <<pdfFile, jsonResult, error, isProcessing, rfile>>
    /\ UNCHANGED lvars /\ UNCHANGED nvars /\ UNCHANGED pvars

\* fetch rejects (network error)
FetchFails(k) ==
    /\ rpc[k] = "fetching"
    /\ CatchFinally(k, "Failed to fetch")

\* response.json() of an ok response resolves: setJsonResult, then finally
ShowResult(k) ==
    /\ rpc[k] = "decoding"
    /\ jsonResult' = ResultOf(rfile[k])
    /\ isProcessing' = FALSE
    /\ rpc' = [rpc EXCEPT ![k] = "idle"]
    /\ rfile' = [rfile EXCEPT ![k] = NoFile]
    /\ UNCHANGED <<pdfFile, error>> /\ UNCHANGED lvars /\ UNCHANGED nvars /\ UNCHANGED pvars

\* response.json() of a non-ok response resolves: throw new Error(errorData.error || ...)
ShowServerError(k) ==
    /\ rpc[k] = "decodingError"
    /\ CatchFinally(k, "Failed to extract recipe data")

\* response.json() rejects
DecodeFails(k) ==
    /\ rpc[k] \in {"decoding", "decodingError"}
    /\ CatchFinally(k, "Unexpected token in JSON")

\* the steps of a run that complete an awaited operation
Settle(k) ==
    \/ LibraryNotLoaded(k)
    \/ TextExtracted(k)
    \/ TextExtractionFails(k)
    \/ \E ok \in BOOLEAN : FetchResponds(k, ok)
    \/ FetchFails(k)
    \/ ShowResult(k)
    \/ ShowServerError(k)
    \/ DecodeFails(k)

NextPage ==
    \/ Mount
    \/ LoadPdfJs
    \/ ImportResolves
    \/ ImportRejects
    \/ \E f \in Files \cup {NoFile} : HandleFileChange(f)
    \/ \E k \in Runs : ProcessRecipe(k)
    \/ \E k \in Runs : Settle(k)
SpecPage == InitPage /\ [][NextPage]_vars
\* every awaited operation of a run settles
SpecPageFair == SpecPage /\ \A k \in Runs : WF_vars(Settle(k))

(***************************************************************************)
(* C16: a non-empty JSON result on the page was extracted from the file    *)
(* that is selected now.                                                   *)
(***************************************************************************)
C16_ResultOfSelectedFile == jsonResult.t = "json" => jsonResult.of = pdfFile

(***************************************************************************)
(* C17: whenever isProcessing is true it becomes false again, whichever    *)
(* awaited step succeeds or throws, and at most one run of processRecipe   *)
(* is in flight.                                                           *)
(***************************************************************************)
C17_OneInFlight ==
    /\ Cardinality(InFlight) <= 1
    /\ isProcessing <=> InFlight # {}
C17_ProcessingEnds == (isProcessing ~> ~isProcessing) /\ []C17_OneInFlight

C17_Witness ==
    /\ ~isProcessing /\ InFlight = {}
    /\ error = Str("Unexpected token in JSON")
    /\ pdfFile # NoFile

====
